---- MODULE Spec2Model ----
(***************************************************************************)
(* Model of src/parse_sputnik.py: the extraction pipeline that turns the   *)
(* text of the cells of a schedule table into Train(time, route, days)     *)
(* records.                                                                *)
(*                                                                         *)
(* A Python str is a sequence of characters.  A character is a one-token   *)
(* string; Cyrillic letters are written in Latin transliteration, one      *)
(* token per letter (zh, ch, eh are single letters), upper case letters    *)
(* as upper case tokens.  "EMDASH" and "ENDASH" are U+2014 and U+2013,     *)
(* "TAB" is a whitespace character other than the space.                   *)
(***************************************************************************)
EXTENDS Integers, Sequences, FiniteSets, TLC

\* ------------------------------------------------------------------------
\* Characters and the str methods the program uses
\* ------------------------------------------------------------------------

\* str.lower() on one character: the upper case letters and their images
ToLower ==
  [c \in {"A", "B", "V", "G", "D", "E", "ZH", "I", "K", "L", "M", "N", "O",
          "P", "R", "S", "T", "U", "H", "CH", "Y", "EH"} |->
     CASE c = "A" -> "a" [] c = "B" -> "b" [] c = "V" -> "v" [] c = "G" -> "g"
       [] c = "D" -> "d" [] c = "E" -> "e" [] c = "ZH" -> "zh" [] c = "I" -> "i"
       [] c = "K" -> "k" [] c = "L" -> "l" [] c = "M" -> "m" [] c = "N" -> "n"
       [] c = "O" -> "o" [] c = "P" -> "p" [] c = "R" -> "r" [] c = "S" -> "s"
       [] c = "T" -> "t" [] c = "U" -> "u" [] c = "H" -> "h" [] c = "CH" -> "ch"
       [] c = "Y" -> "y" [] c = "EH" -> "eh"]

\* the characters matched by \s, \d and \w
Whitespace == {" ", "TAB"}
Digit == {"0", "1", "2", "3", "4", "5", "6", "7", "8", "9"}
WordChar == DOMAIN ToLower \cup {ToLower[c] : c \in DOMAIN ToLower} \cup Digit \cup {"_"}

\* str.lower()
lower(text) == [i \in 1..Len(text) |-> IF text[i] \in DOMAIN ToLower THEN ToLower[text[i]] ELSE text[i]]

\* str.lstrip(chars) / str.rstrip(chars) / str.strip(chars)
lstrip(text, chars) ==
  LET n == Len(text)
      k == CHOOSE i \in 1..(n + 1) :
             /\ (i = n + 1 \/ text[i] \notin chars)
             /\ \A j \in 1..(i - 1) : text[j] \in chars
  IN  SubSeq(text, k, n)

rstrip(text, chars) ==
  LET n == Len(text)
      k == CHOOSE i \in 0..n :
             /\ (i = 0 \/ text[i] \notin chars)
             /\ \A j \in (i + 1)..n : text[j] \in chars
  IN  SubSeq(text, 1, k)

strip(text, chars) == rstrip(lstrip(text, chars), chars)

\* str.startswith(prefix)
startswith(text, prefix) ==
  /\ Len(prefix) <= Len(text)
  /\ SubSeq(text, 1, Len(prefix)) = prefix

\* the operator `sub in text` on two str
contains(text, sub) ==
  \E i \in 1..(Len(text) - Len(sub) + 1) : SubSeq(text, i, i + Len(sub) - 1) = sub

\* text.split("(", 1)[0]: the part of text before its first "("
split_paren_head(text) ==
  IF \E i \in 1..Len(text) : text[i] = "("
    THEN SubSeq(text, 1, (CHOOSE i \in 1..Len(text) :
                            text[i] = "(" /\ \A j \in 1..(i - 1) : text[j] # "(") - 1)
    ELSE text

\* ------------------------------------------------------------------------
\* Constants of the program
\* ------------------------------------------------------------------------

ezhednevno == <<"e", "zh", "e", "d", "n", "e", "v", "n", "o">>
budni == <<"b", "u", "d", "n", "i">>
vyhodnye == <<"v", "y", "h", "o", "d", "n", "y", "e">>
DAY_LABELS == <<ezhednevno, budni, vyhodnye>>

Elektrichka == <<"EH", "l", "e", "k", "t", "r", "i", "ch", "k", "a">>
Sputnik == <<"S", "p", "u", "t", "n", "i", "k">>
Ivolga == <<"I", "v", "o", "l", "g", "a">>
Lastochka == <<"L", "a", "s", "t", "o", "ch", "k", "a">>
TRAIN_KINDS == <<Elektrichka, Sputnik, Ivolga, Lastochka>>

\* Python's None, distinct from every str
None == <<"None">>

\* ------------------------------------------------------------------------
\* normalize_spaces
\* ------------------------------------------------------------------------

\* re.sub(r"\s+", " ", text): every maximal run of whitespace becomes one space
RECURSIVE sub_spaces(_)
sub_spaces(text) ==
  IF text = <<>> THEN <<>>
  ELSE IF Head(text) \in Whitespace
    THEN <<" ">> \o sub_spaces(lstrip(text, Whitespace))
    ELSE <<Head(text)>> \o sub_spaces(Tail(text))

normalize_spaces(text) == strip(sub_spaces(text), Whitespace)

\* ------------------------------------------------------------------------
\* remove_train_kind
\* ------------------------------------------------------------------------

\* the loop over TRAIN_KINDS from position k on: the first kind that is a
\* prefix of text is cut off, with the whitespace after it, and the loop ends
RECURSIVE remove_train_kind_from(_, _)
remove_train_kind_from(text, k) ==
  IF k > Len(TRAIN_KINDS) THEN text
  ELSE IF startswith(text, TRAIN_KINDS[k])
    THEN lstrip(SubSeq(text, Len(TRAIN_KINDS[k]) + 1, Len(text)), Whitespace)
    ELSE remove_train_kind_from(text, k + 1)

remove_train_kind(text) == remove_train_kind_from(text, 1)

\* ------------------------------------------------------------------------
\* remove_day_labels
\* ------------------------------------------------------------------------

\* re.sub(label, "", text, flags=re.IGNORECASE): one left-to-right pass that
\* drops the non-overlapping occurrences of label, whatever their letter case
RECURSIVE sub_label(_, _)
sub_label(label, text) ==
  IF text = <<>> THEN <<>>
  ELSE IF Len(label) <= Len(text) /\ lower(SubSeq(text, 1, Len(label))) = lower(label)
    THEN sub_label(label, SubSeq(text, Len(label) + 1, Len(text)))
    ELSE <<Head(text)>> \o sub_label(label, Tail(text))

\* the loop over DAY_LABELS from position k on
RECURSIVE remove_day_labels_from(_, _)
remove_day_labels_from(result, k) ==
  IF k > Len(DAY_LABELS) THEN result
  ELSE remove_day_labels_from(sub_label(DAY_LABELS[k], result), k + 1)

remove_day_labels(text) == remove_day_labels_from(text, 1)

\* ------------------------------------------------------------------------
\* simplify_route_text
\* ------------------------------------------------------------------------

\* re.sub(r"\d+\s*$", "", route): the leftmost match is the last run of
\* digits when only whitespace follows it; the match runs to the end
sub_train_number(route) ==
  LET body == rstrip(route, Whitespace)
  IN  IF body # <<>> /\ body[Len(body)] \in Digit
        THEN rstrip(body, Digit)
        ELSE route

simplify_route_text(raw) ==
  LET route1 == split_paren_head(raw)
      route2 == strip(route1, Whitespace)
      route3 == remove_train_kind(route2)
      route4 == remove_day_labels(route3)
      route5 == sub_train_number(route4)
      route6 == normalize_spaces(route5)
  IN  strip(route6, {" ", ","})

\* ------------------------------------------------------------------------
\* find_departure_time, find_days_label, find_route_string
\* ------------------------------------------------------------------------

\* re.search(r"\b\d{2}:\d{2}\b", part): the positions where the pattern matches
time_matches(part) ==
  {i \in 1..(Len(part) - 4) :
     /\ part[i] \in Digit /\ part[i + 1] \in Digit
     /\ part[i + 2] = ":"
     /\ part[i + 3] \in Digit /\ part[i + 4] \in Digit
     /\ (i = 1 \/ part[i - 1] \notin WordChar)
     /\ (i + 4 = Len(part) \/ part[i + 5] \notin WordChar)}

RECURSIVE find_departure_time(_)
find_departure_time(chunks) ==
  IF chunks = <<>> THEN None
  ELSE LET part == Head(chunks)
           m == time_matches(part)
       IN  IF m # {}
             THEN LET i == CHOOSE i \in m : \A j \in m : i <= j
                  IN  SubSeq(part, i, i + 4)
             ELSE find_departure_time(Tail(chunks))

\* the inner loop of find_days_label over DAY_LABELS from position k on
RECURSIVE find_label_in(_, _)
find_label_in(lowered, k) ==
  IF k > Len(DAY_LABELS) THEN None
  ELSE IF contains(lowered, DAY_LABELS[k]) THEN DAY_LABELS[k]
  ELSE find_label_in(lowered, k + 1)

\* the outer loop of find_days_label over chunks from position i on
RECURSIVE find_days_label_from(_, _)
find_days_label_from(chunks, i) ==
  IF i > Len(chunks) THEN <<>>
  ELSE LET hit == find_label_in(lower(chunks[i]), 1)
       IN  IF hit # None THEN hit ELSE find_days_label_from(chunks, i + 1)

\* the same search with the loops exchanged: labels outside, chunks inside
RECURSIVE find_days_label_flat_from(_, _)
find_days_label_flat_from(chunks, k) ==
  IF k > Len(DAY_LABELS) THEN <<>>
  ELSE IF \E i \in 1..Len(chunks) : contains(lower(chunks[i]), DAY_LABELS[k])
    THEN DAY_LABELS[k]
    ELSE find_days_label_flat_from(chunks, k + 1)

find_days_label_flat(chunks) == find_days_label_flat_from(chunks, 1)

find_days_label(chunks) == find_days_label_from(chunks, 1)

\* the test on line 112: the part holds a dash or a hyphen
has_dash(part) == \E i \in 1..Len(part) : part[i] \in {"EMDASH", "ENDASH", "-"}

RECURSIVE find_route_string(_)
find_route_string(chunks) ==
  IF chunks = <<>> THEN None
  ELSE LET part == Head(chunks)
           route == simplify_route_text(part)
       IN  IF has_dash(part) /\ route # <<>>
             THEN route
             ELSE find_route_string(Tail(chunks))

\* ------------------------------------------------------------------------
\* parse_schedule
\* ------------------------------------------------------------------------

\* lines 138-142: the normalised texts of the cells that are not blank
RECURSIVE row_texts(_)
row_texts(cells) ==
  IF cells = <<>> THEN <<>>
  ELSE IF strip(Head(cells), Whitespace) # <<>>
    THEN <<normalize_spaces(Head(cells))>> \o row_texts(Tail(cells))
    ELSE row_texts(Tail(cells))

\* the truth value of an Optional[str]: None and "" are false
truthy(value) == value # None /\ value # <<>>

\* the filter letting the rows without a label through
filtered_out_labelled(filter, label) == truthy(filter) /\ label # filter /\ label # <<>>

\* line 151: the row is dropped by the filter
filtered_out(filter, label) == truthy(filter) /\ label # filter

\* the key without the days
row_key_no_days(t, r, d) == <<t, r>>

\* line 159
row_key(t, r, d) == <<t, r, d>>

\* the key is not recorded
seen_add_forget(keys, key) == keys

\* line 162
seen_add(keys, key) == keys \cup {key}

\* line 164
Train(t, r, d) == [time |-> t, route |-> r, days |-> d]

\* the record is put at the front
result_prepend(list, train) == <<train>> \o list

result_append(list, train) == Append(list, train)

\* one iteration of the loop of lines 133-164 on the cells of one row,
\* from the state st = [result, seen] to the state after the iteration
loop_body(cells, filter, st) ==
  LET texts == row_texts(cells)
      t == find_departure_time(texts)
      d == find_days_label(texts)
      r == find_route_string(texts)
      key == row_key(t, r, d)
  IN  IF texts = <<>> THEN st
      ELSE IF ~truthy(t) THEN st
      ELSE IF filtered_out(filter, d) THEN st
      ELSE IF ~truthy(r) THEN st
      ELSE IF key \in st.seen THEN st
      ELSE [result |-> result_append(st.result, Train(t, r, d)),
            seen |-> seen_add(st.seen, key)]

\* the whole loop, from row k on
RECURSIVE parse_from(_, _, _, _)
parse_from(table, filter, k, st) ==
  IF k > Len(table) THEN st.result
  ELSE parse_from(table, filter, k + 1, loop_body(table[k], filter, st))

parse_schedule(table, filter) == parse_from(table, filter, 1, [result |-> <<>>, seen |-> {}])

\* ------------------------------------------------------------------------
\* Inputs
\* ------------------------------------------------------------------------

MaxRows == 3
MaxPieces == 3
MaxChunks == 2

Moskva == <<"M", "o", "s", "k", "v", "a">>
Posad == <<"P", "o", "s", "a", "d">>
T0845 == <<"0", "8", ":", "4", "5">>
T0910 == <<"0", "9", ":", "1", "0">>
Sp == <<" ">>

\* the sequences over S of length at most n
SeqUpTo(S, n) == UNION {[1..m -> S] : m \in 0..n}

\* the concatenation of a sequence of str
RECURSIVE Concat(_)
Concat(ps) == IF ps = <<>> THEN <<>> ELSE Head(ps) \o Concat(Tail(ps))

\* the rows of the table: the texts of the td cells of one tr
RowSet ==
  { <<T0845, Concat(<<Elektrichka, Sp, Moskva, Sp, <<"EMDASH">>, Sp, Posad, Sp, <<"6", "2">> >>), budni>>,
    <<T0845, Concat(<<Moskva, Sp, <<"EMDASH">>, Sp, Posad>>), budni>>,
    <<T0845, Concat(<<Moskva, Sp, Sp, <<"EMDASH">>, <<"TAB">>, Posad>>), ezhednevno>>,
    <<T0845, Concat(<<Moskva, Sp, <<"EMDASH">>, Sp, Posad>>)>>,
    <<T0910, Concat(<<Posad, Sp, <<"-">>, Sp, Moskva>>), <<"B", "u", "d", "n", "i">> >>,
    << <<>>, Concat(<<Moskva, Sp, <<"EMDASH">>, Sp, Posad>>), budni>>,
    <<T0845, Moskva, vyhodnye>>,
    << <<"9", "9", ":", "9", "9">>, Concat(<<Moskva, Sp, <<"(">>, <<"1", "-", "6", ")">> >>)>>,
    << <<>>, <<" ", "TAB">> >> }

DayFilters == {None, ezhednevno, budni, vyhodnye}

\* the pieces the raw route fragments are made of
RoutePieces ==
  { Sp, <<",">>, <<"EMDASH">>, <<"-">>, <<"(">>, <<"6", "2">>, Moskva, Posad,
    Elektrichka, Sputnik, ezhednevno, budni, vyhodnye,
    <<"B", "U", "D", "N", "I">>, <<"b", "u", "d">>, <<"n", "i">> }

RawInputs == {Concat(ps) : ps \in SeqUpTo(RoutePieces, MaxPieces)}

\* the texts of one row handed to the find_ functions
ChunkTexts ==
  { T0845, <<"9", "9", ":", "9", "9">>, <<"2", "4", ":", "6", "0">>,
    Concat(<<<<"o", "t">>, Sp, T0910, Sp, <<"s">> >>),
    Concat(<<<<"1">>, T0845>>), Concat(<<T0845, <<"a">> >>),
    budni, ezhednevno, <<"V", "Y", "H", "O", "D", "N", "Y", "E">>,
    Concat(<<vyhodnye, Sp, budni>>),
    Concat(<<Moskva, Sp, <<"EMDASH">>, Sp, Posad, Sp, ezhednevno>>),
    Concat(<<Moskva, Sp, <<"(">>, <<"1", "-", "6">> >>),
    <<" ", "-", ",">>, <<"ENDASH">>, Moskva }

\* ------------------------------------------------------------------------
\* State
\* ------------------------------------------------------------------------

VARIABLES
  rows,        \* parse_schedule: the table, one sequence of cell texts per tr
  day_filter,  \* parse_schedule: the day_filter argument
  row,         \* parse_schedule: the index of the next row of the loop
  result,      \* parse_schedule: the list result
  seen,        \* parse_schedule: the set seen
  pc,          \* parse_schedule: "loop", "returned", or "idle"
  raw,         \* simplify_route_text: the argument
  simplified,  \* simplify_route_text: the value returned, None before the call
  chunks,      \* find_...: the argument
  time,        \* the value find_departure_time returned
  days,        \* the value find_days_label returned
  route,       \* the value find_route_string returned
  called       \* the find_ functions that have returned

vars == <<rows, day_filter, row, result, seen, pc, raw, simplified, chunks, time, days, route, called>>
parse_vars == <<rows, day_filter, row, result, seen, pc>>
simplify_vars == <<raw, simplified>>
find_vars == <<chunks, time, days, route, called>>

ParseIdle == rows = <<>> /\ day_filter = None /\ row = 1 /\ result = <<>> /\ seen = {} /\ pc = "idle"
SimplifyIdle == raw = <<>> /\ simplified = None
FindIdle == chunks = <<>> /\ time = None /\ days = None /\ route = None /\ called = {}

\* ---- parse_schedule, one call ----

Init ==
  /\ rows \in SeqUpTo(RowSet, MaxRows)
  /\ day_filter \in DayFilters
  /\ row = 1
  /\ result = <<>>
  /\ seen = {}
  /\ pc = "loop"
  /\ SimplifyIdle /\ FindIdle

\* lines 133-164: the loop body on the next row
Iterate ==
  /\ pc = "loop"
  /\ row <= Len(rows)
  /\ LET st == loop_body(rows[row], day_filter, [result |-> result, seen |-> seen])
     IN  result' = st.result /\ seen' = st.seen
  /\ row' = row + 1
  /\ UNCHANGED <<rows, day_filter, pc, simplify_vars, find_vars>>

\* line 166
Return ==
  /\ pc = "loop"
  /\ row > Len(rows)
  /\ pc' = "returned"
  /\ UNCHANGED <<rows, day_filter, row, result, seen, simplify_vars, find_vars>>

Next == Iterate \/ Return

Spec == Init /\ [][Next]_vars

\* ---- simplify_route_text, one call ----

InitSimplify ==
  /\ raw \in RawInputs
  /\ simplified = None
  /\ ParseIdle /\ FindIdle

Simplify ==
  /\ simplified = None
  /\ simplified' = simplify_route_text(raw)
  /\ UNCHANGED <<raw, parse_vars, find_vars>>

NextSimplify == Simplify

SpecSimplify == InitSimplify /\ [][NextSimplify]_vars

\* ---- the find_ functions on the texts of one row ----

InitFind ==
  /\ chunks \in SeqUpTo(ChunkTexts, MaxChunks)
  /\ time = None /\ days = None /\ route = None
  /\ called = {}
  /\ ParseIdle /\ SimplifyIdle

FindTime ==
  /\ "find_departure_time" \notin called
  /\ time' = find_departure_time(chunks)
  /\ called' = called \cup {"find_departure_time"}
  /\ UNCHANGED <<chunks, days, route, parse_vars, simplify_vars>>

FindDays ==
  /\ "find_days_label" \notin called
  /\ days' = find_days_label(chunks)
  /\ called' = called \cup {"find_days_label"}
  /\ UNCHANGED <<chunks, time, route, parse_vars, simplify_vars>>

FindRoute ==
  /\ "find_route_string" \notin called
  /\ route' = find_route_string(chunks)
  /\ called' = called \cup {"find_route_string"}
  /\ UNCHANGED <<chunks, time, days, parse_vars, simplify_vars>>

NextFind == FindTime \/ FindDays \/ FindRoute

SpecFind == InitFind /\ [][NextFind]_vars

\* ------------------------------------------------------------------------
\* Properties
\* ------------------------------------------------------------------------

\* the records a row yields when nothing filters it and nothing was seen:
\* one record, or none when the row has no texts, no time or no route
row_trains(cells) ==
  LET texts == row_texts(cells)
      t == find_departure_time(texts)
      r == find_route_string(texts)
  IN  IF texts # <<>> /\ truthy(t) /\ truthy(r)
        THEN {Train(t, r, find_days_label(texts))}
        ELSE {}

\* the rows the loop has been through
Processed == 1..(row - 1)

\* the first of the rows, given by the records they yield, that yields the
\* record; 0 when no row yields it
FirstRow(yields, train) ==
  IF \E i \in DOMAIN yields : train \in yields[i]
    THEN CHOOSE i \in DOMAIN yields :
           /\ train \in yields[i]
           /\ \A j \in 1..(i - 1) : train \notin yields[j]
    ELSE 0

Triple(train) == <<train.time, train.route, train.days>>

\* C1: at every point of one parse_schedule call, whatever the rows and the
\* day filter, no two records of result have the same (time, route, days).
C1_UniqueTriples ==
  \A i, j \in 1..Len(result) : i # j => Triple(result[i]) # Triple(result[j])

\* a second row with the triple of an earlier, emitted row has been processed
C1_Witness ==
  /\ Len(result) >= 2
  /\ \E i, j \in Processed :
       /\ i < j
       /\ row_trains(rows[i]) # {}
       /\ row_trains(rows[i]) = row_trains(rows[j])
       /\ \E k \in 1..Len(result) : result[k] \in row_trains(rows[i])

\* the records of result are in the order of the first rows that yield them
OrderOfRows ==
  Len(result) >= 2 =>
    LET yields == [k \in 1..Len(rows) |-> row_trains(rows[k])]
        first == [i \in 1..Len(result) |-> FirstRow(yields, result[i])]
    IN  \A i \in 1..(Len(result) - 1) : 0 < first[i] /\ first[i] < first[i + 1]

\* a step leaves result as it is or appends one record to it
AppendOnly ==
  \/ result' = result
  \/ /\ Len(result') = Len(result) + 1
     /\ SubSeq(result', 1, Len(result)) = result

\* C2: the records of result appear in source-row order (the first row
\* yielding r1 is strictly before the first row yielding r2 when r1 is
\* before r2), and result only grows at its end: no record is moved or
\* removed, in particular not by a duplicate row.
C2_RowOrder == []OrderOfRows /\ [][AppendOnly]_vars

\* two records are emitted and then a duplicate of the first row is processed
C2_Witness ==
  /\ Len(result) >= 2
  /\ row = 4
  /\ row_trains(rows[1]) = {result[1]}
  /\ row_trains(rows[2]) = {result[2]}
  /\ row_trains(rows[3]) = {result[1]}

\* C3: with a day filter that is set, every record of result has days equal
\* to the filter; rows with another label, or with no label, give no record.
C3_FilterExact ==
  truthy(day_filter) => \A i \in 1..Len(result) : result[i].days = day_filter

\* a filtered call has emitted a record and has been through a row with
\* another label and a row with no label, each with a time and a route
C3_Witness ==
  /\ truthy(day_filter)
  /\ result # <<>>
  /\ \E i \in Processed : \E t \in row_trains(rows[i]) : t.days = <<>>
  /\ \E i \in Processed : \E t \in row_trains(rows[i]) : t.days \notin {<<>>, day_filter}

\* the value of a digit character
DigitValue(c) ==
  CASE c = "0" -> 0 [] c = "1" -> 1 [] c = "2" -> 2 [] c = "3" -> 3 [] c = "4" -> 4
    [] c = "5" -> 5 [] c = "6" -> 6 [] c = "7" -> 7 [] c = "8" -> 8 [] c = "9" -> 9

\* HH:MM with the hour in 00..23 and the minute in 00..59
IsClockTime(text) ==
  /\ Len(text) = 5
  /\ text[1] \in Digit /\ text[2] \in Digit /\ text[3] = ":"
  /\ text[4] \in Digit /\ text[5] \in Digit
  /\ 10 * DigitValue(text[1]) + DigitValue(text[2]) <= 23
  /\ 10 * DigitValue(text[4]) + DigitValue(text[5]) <= 59

\* C4: the time of every emitted record is a valid clock time HH:MM, hour
\* 00..23 and minute 00..59, whatever the row holds.
C4_ClockTime == \A i \in 1..Len(result) : IsClockTime(result[i].time)

\* C5: the value simplify_route_text returns does not start with any of the
\* train kinds, whatever the raw fragment.
C5_NoTrainKindPrefix ==
  simplified # None => \A k \in 1..Len(TRAIN_KINDS) : ~startswith(simplified, TRAIN_KINDS[k])

\* C6: the value simplify_route_text returns does not end with a digit,
\* whatever the raw fragment.
C6_NoTrailingDigits ==
  (simplified # None /\ simplified # <<>>) => simplified[Len(simplified)] \notin Digit

\* origin, dash, destination: a dash with station text on both sides
IsCanonicalRoute(text) ==
  \E k \in 1..Len(text) :
    /\ text[k] \in {"EMDASH", "ENDASH", "-"}
    /\ strip(SubSeq(text, 1, k - 1), {" ", ","}) # <<>>
    /\ strip(SubSeq(text, k + 1, Len(text)), {" ", ","}) # <<>>

\* C7: the route of every emitted record has the form origin, dash,
\* destination: a dash separator with non-empty station text on both sides.
C7_CanonicalRoute == \A i \in 1..Len(result) : IsCanonicalRoute(result[i].route)

\* C8: the value simplify_route_text returns contains none of the day
\* labels as a substring, in any letter case, whatever the raw fragment.
C8_NoDayLabel ==
  simplified # None => \A k \in 1..Len(DAY_LABELS) : ~contains(lower(simplified), DAY_LABELS[k])

\* the positions in DAY_LABELS of the labels the lower-cased part contains
LabelsIn(part) == {k \in 1..Len(DAY_LABELS) : contains(lower(part), DAY_LABELS[k])}

\* the positions of the chunks that contain a label
PartsWithLabel == {i \in 1..Len(chunks) : LabelsIn(chunks[i]) # {}}

Min(S) == CHOOSE x \in S : \A y \in S : x <= y

\* C9: find_days_label returns the label of the earliest chunk that contains
\* a label, and among the labels of that chunk the earliest of DAY_LABELS;
\* it returns "" exactly when no chunk contains a label.
C9_FragmentThenLabel ==
  "find_days_label" \in called =>
    /\ (days = <<>>) <=> (PartsWithLabel = {})
    /\ PartsWithLabel # {} => days = DAY_LABELS[Min(LabelsIn(chunks[Min(PartsWithLabel)]))]

\* the first chunk holds a later label only, the second chunk an earlier one
C9_Witness ==
  /\ "find_days_label" \in called
  /\ Len(chunks) = 2
  /\ LabelsIn(chunks[1]) = {2}
  /\ 1 \in LabelsIn(chunks[2])
  /\ days = budni

\* the records of list whose days are label, in the order of list
WithDays(list, label) ==
  LET Keep(train) == train.days = label
  IN  SelectSeq(list, Keep)

\* C10: the result of a call with a set filter f is the result of the call
\* without filter on the same rows, restricted to the records with days = f,
\* in the same order.
C10_FilterCommutes ==
  (pc = "returned" /\ truthy(day_filter)) =>
    result = WithDays(parse_schedule(rows, None), day_filter)

\* a filtered call has returned records; without the filter the same rows
\* give more records, and a row was dropped as a duplicate
C10_Witness ==
  /\ pc = "returned"
  /\ truthy(day_filter)
  /\ result # <<>>
  /\ Len(parse_schedule(rows, None)) > Len(result)
  /\ \E i, j \in 1..Len(rows) : i < j /\ row_trains(rows[i]) # {} /\ row_trains(rows[i]) = row_trains(rows[j])

====
